---- MODULE Spec2Model ----
(***************************************************************************)
(* The chat assistant of the portfolio site (ChatWidget.tsx): the          *)
(* knowledge base built from the portfolio records, the keyword matcher    *)
(* findBestMatch, and the widget's state (message list, input box, typing  *)
(* flag, hint, ornaments) driven by user events and browser timers.        *)
(*                                                                         *)
(* Strings are TLA+ strings; TLC evaluates Len, SubSeq and \o on them.     *)
(* The module is ASCII: the em dash of the education line is written "--"  *)
(* and the waving-hand emoji of the greeting ":wave:".                     *)
(* Time is the value of Date.now(), in milliseconds.                       *)
(***************************************************************************)
EXTENDS Integers, Sequences, FiniteSets, TLC

(***************************************************************************)
(* Bounds of the model.                                                    *)
(***************************************************************************)
\* Date.now() at the first render of the widget.
MountTime == 100000
\* Number of times the user opens the panel or sends a non-blank input.
MaxUserEvents == 3
\* Number of one-millisecond clock steps (the other steps run to a timer).
MaxUnitTicks == 1
\* Longest list of skill records and of project records in the snapshots.
MaxSkills == 9
MaxProjects == 7

(***************************************************************************)
(* Program constants.                                                      *)
(***************************************************************************)
HintDelay == 5000
OrnamentDelay == 250
ReplyDelay == 800
MaxSkillsShown == 8
MaxProjectsShown == 6
MaxStrengthsShown == 4

\* No timer of the lineage is pending (a cleared or fired timeout).
NoTimer == -1

(***************************************************************************)
(* String primitives of JavaScript used by the widget.                     *)
(***************************************************************************)
UpperLetters == "ABCDEFGHIJKLMNOPQRSTUVWXYZ"
LowerLetters == "abcdefghijklmnopqrstuvwxyz"
WhiteSpace == {" ", "\t", "\n"}

CharAt(s, i) == SubSeq(s, i, i)

\* String.prototype.toLowerCase on one character.
LowerChar(c) ==
  IF \E i \in 1..26 : CharAt(UpperLetters, i) = c
    THEN CharAt(LowerLetters, CHOOSE i \in 1..26 : CharAt(UpperLetters, i) = c)
    ELSE c

\* The lower-cased characters of s from position i on.
RECURSIVE lowerFrom(_, _)
lowerFrom(s, i) ==
  IF i > Len(s) THEN ""
  ELSE LowerChar(CharAt(s, i)) \o lowerFrom(s, i + 1)

\* The string as it is.
keepCase(s) == s

\* String.prototype.toLowerCase
toLowerCase(s) == lowerFrom(s, 1)

\* String.prototype.includes
includes(s, w) ==
  \E i \in 1..(Len(s) - Len(w) + 1) : SubSeq(s, i, i + Len(w) - 1) = w

RECURSIVE trimStart(_)
trimStart(s) ==
  IF Len(s) > 0 /\ CharAt(s, 1) \in WhiteSpace
    THEN trimStart(SubSeq(s, 2, Len(s)))
    ELSE s

RECURSIVE trimEnd(_)
trimEnd(s) ==
  IF Len(s) > 0 /\ CharAt(s, Len(s)) \in WhiteSpace
    THEN trimEnd(SubSeq(s, 1, Len(s) - 1))
    ELSE s

\* String.prototype.trim
trim(s) == trimEnd(trimStart(s))

Digits == "0123456789"

\* Number.prototype.toString of a non-negative integer
RECURSIVE toString(_)
toString(n) ==
  IF n < 10 THEN CharAt(Digits, n + 1)
  ELSE toString(n \div 10) \o CharAt(Digits, (n % 10) + 1)

\* The whole array.
sliceAll(a, n) == a

\* Array.prototype.slice(0, n)
slice(a, n) == SubSeq(a, 1, IF Len(a) < n THEN Len(a) ELSE n)

\* Array.prototype.join of an array of strings
RECURSIVE join(_, _)
join(a, sep) ==
  IF Len(a) = 0 THEN ""
  ELSE IF Len(a) = 1 THEN a[1]
  ELSE a[1] \o sep \o join(Tail(a), sep)

(***************************************************************************)
(* The portfolio records (data/index.ts).  A record is a TLA+ record; an   *)
(* optional field that is absent is absent from its DOMAIN.  The hero      *)
(* object itself is absent when the snapshot has no "hero" field.          *)
(***************************************************************************)
Has(o, f) == f \in DOMAIN o

\* JavaScript truthiness of an optional string field
Truthy(o, f) == Has(o, f) /\ o[f] # ""

\* An optional string field inside a template literal
Render(o, f) == IF Has(o, f) THEN o[f] ELSE "undefined"

\* An optional number field inside a template literal
RenderNum(o, f) == IF Has(o, f) THEN toString(o[f]) ELSE "undefined"

\* An optional string field as an element of Array.prototype.join
JoinItem(o, f) == IF Has(o, f) THEN o[f] ELSE ""

\* Array.prototype.map
Map(a, F(_)) == [i \in 1..Len(a) |-> F(a[i])]

\* `export const contact = raw.contact || {}` and the other collections
contactOf(raw) == IF Has(raw, "contact") THEN raw.contact ELSE << >>
skillsOf(raw) == IF Has(raw, "skills") THEN raw.skills ELSE << >>
projectsOf(raw) == IF Has(raw, "projects") THEN raw.projects ELSE << >>
experiencesOf(raw) == IF Has(raw, "experiences") THEN raw.experiences ELSE << >>
educationOf(raw) == IF Has(raw, "education") THEN raw.education ELSE << >>

\* hero?.location
heroLocationTruthy(raw) == Has(raw, "hero") /\ Truthy(raw.hero, "location")

Topics ==
  << "skills", "experience", "projects", "education", "contact",
     "location", "availability", "technologies", "strengths", "interests" >>

TopicSet == { Topics[i] : i \in 1..Len(Topics) }

\* The value of a call that threw instead of returning
TypeError == [ threw |-> "TypeError" ]

kbSkills(raw) ==
  IF Len(skillsOf(raw)) # 0
    THEN "Top skills: "
         \o join(Map(slice(skillsOf(raw), MaxSkillsShown),
                     LAMBDA s : Render(s, "name") \o " (" \o RenderNum(s, "level") \o "%)"),
                 ", ")
         \o "."
    ELSE "Skills information is not available."

kbExperience(raw) ==
  IF Len(experiencesOf(raw)) # 0
    THEN join(Map(experiencesOf(raw),
                  LAMBDA e : Render(e, "role") \o " at " \o Render(e, "company")
                             \o " (" \o Render(e, "period") \o ")"),
              "; ")
    ELSE "Experience information is not available."

\* The project titles joined with a comma.
kbProjectsCommaJoined(raw) ==
  IF Len(projectsOf(raw)) # 0
    THEN "Projects: "
         \o join(Map(slice(projectsOf(raw), MaxProjectsShown),
                     LAMBDA p : JoinItem(p, "title")),
                 ", ")
         \o "."
    ELSE "Project information is not available."

kbProjects(raw) ==
  IF Len(projectsOf(raw)) # 0
    THEN "Projects: "
         \o join(Map(slice(projectsOf(raw), MaxProjectsShown),
                     LAMBDA p : JoinItem(p, "title")),
                 "; ")
         \o "."
    ELSE "Project information is not available."

kbEducation(raw) ==
  IF Len(educationOf(raw)) # 0
    THEN join(Map(educationOf(raw),
                  LAMBDA ed : Render(ed, "degree") \o " -- " \o Render(ed, "institution")
                              \o " (" \o (IF Truthy(ed, "year") THEN ed.year ELSE "") \o ")"),
              "; ")
    ELSE "Education information is not available."

\* Line 50 reads hero.location, without ?., when contact.location is falsy.
kbContactThrows(raw) ==
  /\ Truthy(contactOf(raw), "email") \/ Truthy(contactOf(raw), "phone")
  /\ ~Truthy(contactOf(raw), "location")
  /\ ~Has(raw, "hero")

kbContact(raw) ==
  LET contact == contactOf(raw) IN
  IF Truthy(contact, "email") \/ Truthy(contact, "phone")
    THEN "Contact: "
         \o (IF Truthy(contact, "email")
               THEN contact.email
                    \o (IF Truthy(contact, "phone") THEN " | " \o contact.phone ELSE "")
               ELSE contact.phone)
         \o ". Location: "
         \o (IF Truthy(contact, "location") THEN contact.location
             ELSE IF Truthy(raw.hero, "location") THEN raw.hero.location
             ELSE "N/A")
    ELSE "Contact information is not available."

kbLocation(raw) ==
  IF Truthy(contactOf(raw), "location") THEN contactOf(raw).location
  ELSE IF heroLocationTruthy(raw) THEN raw.hero.location
  ELSE "Location not set."

kbTechnologies(raw) ==
  IF Len(skillsOf(raw)) # 0
    THEN join(Map(skillsOf(raw), LAMBDA s : JoinItem(s, "name")), ", ")
    ELSE "Technologies not listed."

kbAvailability(raw) ==
  IF Truthy(contactOf(raw), "email")
    THEN "Reach out via " \o contactOf(raw).email \o " for opportunities."
    ELSE "Availability information not available."

kbStrengths(raw) ==
  IF Len(skillsOf(raw)) # 0
    THEN "Strengths include "
         \o join(Map(slice(skillsOf(raw), MaxStrengthsShown),
                     LAMBDA s : JoinItem(s, "name")),
                 ", ")
         \o "."
    ELSE "Strengths not available."

kbInterests == "Passionate about automation, AI, and building reliable systems."

buildKnowledgeBase(raw) ==
  IF kbContactThrows(raw) THEN TypeError
  ELSE [ skills |-> kbSkills(raw),
         experience |-> kbExperience(raw),
         projects |-> kbProjects(raw),
         education |-> kbEducation(raw),
         contact |-> kbContact(raw),
         location |-> kbLocation(raw),
         technologies |-> kbTechnologies(raw),
         availability |-> kbAvailability(raw),
         strengths |-> kbStrengths(raw),
         interests |-> kbInterests ]

(***************************************************************************)
(* findBestMatch: the first topic, in the order of the keyword table,      *)
(* one of whose keywords occurs in the lower-cased query.                  *)
(***************************************************************************)
keywords ==
  << [ topic |-> "skills",
       words |-> << "skill", "technology", "tech", "know", "proficient", "good at", "expertise" >> ],
     [ topic |-> "experience",
       words |-> << "work", "job", "experience", "company", "worked", "career", "employment" >> ],
     [ topic |-> "projects",
       words |-> << "project", "built", "created", "portfolio", "work", "developed" >> ],
     [ topic |-> "education",
       words |-> << "education", "degree", "study", "university", "learn", "course" >> ],
     [ topic |-> "contact",
       words |-> << "contact", "reach", "email", "connect", "get in touch", "hire" >> ],
     [ topic |-> "location",
       words |-> << "location", "where", "based", "live", "city" >> ],
     [ topic |-> "availability",
       words |-> << "available", "hire", "hiring", "looking", "job" >> ],
     [ topic |-> "technologies",
       words |-> << "use", "stack", "tools", "framework", "library" >> ],
     [ topic |-> "strengths",
       words |-> << "strength", "good", "best", "achievement" >> ],
     [ topic |-> "interests",
       words |-> << "interest", "hobby", "passion", "like", "enjoy" >> ] >>

FallbackText ==
  "I'd be happy to tell you more! You can ask me about my skills, experience, projects, education, contact information, or availability. What would you like to know?"

\* `words.some(word => lowerQuery.includes(word))`
topicMatches(entry, lowerQuery) ==
  \E j \in 1..Len(entry.words) : includes(lowerQuery, entry.words[j])

\* The index of the last entry, from entry i on, that matches; 0 when none.
RECURSIVE lastMatch(_, _)
lastMatch(i, lowerQuery) ==
  IF i > Len(keywords) THEN 0
  ELSE IF lastMatch(i + 1, lowerQuery) # 0 THEN lastMatch(i + 1, lowerQuery)
  ELSE IF topicMatches(keywords[i], lowerQuery) THEN i
  ELSE 0

\* The for loop over Object.entries(keywords) from entry i on: the index of
\* the first entry that matches, 0 when the loop ends without a match.
RECURSIVE firstMatch(_, _)
firstMatch(i, lowerQuery) ==
  IF i > Len(keywords) THEN 0
  ELSE IF topicMatches(keywords[i], lowerQuery) THEN i
  ELSE firstMatch(i + 1, lowerQuery)

\* `const lowerQuery = query.toLowerCase()`, the loop, and the fallback
findBestMatch(query, kb) ==
  LET lowerQuery == toLowerCase(query)
      found == firstMatch(1, lowerQuery)
  IN IF found = 0 THEN FallbackText ELSE kb[keywords[found].topic]

(***************************************************************************)
(* The widget.                                                             *)
(***************************************************************************)
\* The records the widget is mounted with (portfolio.json is not part of the
\* sources: the records are an input).
Snapshots ==
  { [ hero |-> [ name |-> "Ankush", location |-> "Pune" ],
      contact |-> [ email |-> "a@b.io" ],
      skills |-> << [ name |-> "Go", level |-> 90 ], [ name |-> "Rust", level |-> 80 ] >>,
      projects |-> << [ title |-> "Portfolio" ] >> ] }

\* The texts the user types into the input box: the questions, asked in
\* this order (and again from the first), and at any time a blank input.
UserQueries == << " Projects ", "SKILLS?" >>
BlankInput == "   "

VARIABLES
  records,        \* the imported portfolio data
  knowledgeBase,  \* useMemo(() => buildKnowledgeBase(), ...)
  isOpen,
  showHint,
  showOrnaments,
  messages,
  inputValue,
  isTyping,
  hintTimerRef,   \* TRUE: holds a timer id; FALSE: null
  hintTimer,      \* due time of the pending hint timeout, or NoTimer
  ornamentTimers, \* the pending timeouts of the ornament effect, in creation
                  \* order: [id, due], id counting the calls of setTimeout
  replyTimers,    \* the pending timeouts of handleSend, in creation order
  now,            \* Date.now()
  mounted,        \* FALSE once the component has unmounted
  unitTicks,      \* one-millisecond steps taken so far
  origin,         \* history: for each message, the index of the user message
                  \* whose handleSend produced it (0 for the greeting)
  opens,          \* history: the number of times the panel was opened
  openedAt,       \* history: Date.now() at the latest opening (0: never opened)
  closedEarly,    \* history: the panel is closed, and was closed before the
                  \* ornament delay of its latest opening had elapsed
  kbResult,       \* the value of a direct call of buildKnowledgeBase()
  matchResult     \* the query and the value of a direct call of findBestMatch

vars ==
  << records, knowledgeBase, isOpen, showHint, showOrnaments, messages,
     inputValue, isTyping, hintTimerRef, hintTimer, ornamentTimers,
     replyTimers, now, mounted, unitTicks, origin, opens, openedAt, closedEarly,
     kbResult, matchResult >>

\* The history of the openings and closings of the panel.
panelHistory == << opens, openedAt, closedEarly >>

\* The direct calls of the two module-level functions.
callVars == << kbResult, matchResult >>

\* No direct call has been made.
NotCalled == [ called |-> FALSE ]

everOpened == opens > 0

\* `let t`: the timeout id held by the latest run of the ornament effect.
\* The run for an open panel made the opens-th call of setTimeout; the run
\* for a closed panel left t undefined.
ornamentT == IF isOpen THEN opens ELSE 0

\* hero?.name ?? "Ankush"
heroName(raw) ==
  IF Has(raw, "hero") /\ Has(raw.hero, "name") THEN raw.hero.name ELSE "Ankush"

seedMessage(raw, t) ==
  [ id |-> "1",
    text |-> "Hi! :wave: I'm " \o heroName(raw)
             \o "'s AI assistant. Ask me anything about skills, experience, projects, or contact details.",
    sender |-> "bot",
    timestamp |-> t ]

userMessage(text, t) ==
  [ id |-> toString(t), text |-> text, sender |-> "user", timestamp |-> t ]

botMessage(query, kb, t) ==
  [ id |-> toString(t + 1),
    text |-> findBestMatch(query, kb),
    sender |-> "bot",
    timestamp |-> t ]

\* A thinking time that grows with the length of the question.
replyDueByLength(t, text) == t + 100 * Len(text)

\* `}, 800)`: the time at which the timeout created at t for this input fires
replyDue(t, text) == t + ReplyDelay

\* An ornament timeout of less than the delay.
ornamentDueEarly(t) == t + 100

\* An ornament timeout of twice the delay.
ornamentDueLate(t) == t + 2 * OrnamentDelay

\* `}, 250)`
ornamentDue(t) == t + OrnamentDelay

\* A cleanup that leaves the timeout pending.
ornamentCleanupSkipped(timers, t) == timers

\* A cleanup that clears the timeout of the effect run before the last.
ornamentCleanupStale(timers, t) == SelectSeq(timers, LAMBDA x : x.id # t - 1)

\* `return () => { if (t) window.clearTimeout(t); }`: the cleanup of the
\* ornament effect, run when isOpen changes and at the unmount.  It clears
\* the timeout `t` of the effect run it belongs to (0: `t` is undefined).
ornamentCleanup(timers, t) == SelectSeq(timers, LAMBDA x : x.id # t)

\* A hint timeout of twice the delay.
hintDueLate(t) == t + 2 * HintDelay

\* A hint timeout of less than the delay.
hintDueEarly(t) == t + 1000

\* `}, 5000)`
hintDue(t) == t + HintDelay

\* The newest message first.
prependMessage(prev, m) == << m >> \o prev

\* `[...prev, message]`
appendMessage(prev, m) == Append(prev, m)

\* A new timeout that replaces the pending one.
scheduleReplyDebounced(timers, timer) == << timer >>

\* No new timeout while one is pending.
scheduleReplyWhenIdle(timers, timer) ==
  IF timers = << >> THEN << timer >> ELSE timers

\* `setTimeout(() => {...}, 800)`: handleSend keeps no handle and clears no
\* earlier timeout, so the new timeout joins the pending ones.
scheduleReply(timers, timer) == Append(timers, timer)

\* The hint follows the panel: shown again whenever the panel is closed.
hintWhileClosed(open, hint) == ~open

\* `if (isOpen && showHint) setShowHint(false)`
hintAfterOpenEffect(open, hint) == IF open /\ hint THEN FALSE ELSE hint

\* The hint as useState(false) creates it.
showHintInitial == FALSE

\* `setShowHint(true)` in the mount effect
showHintAfterMount == TRUE

\* The state after the first render and its effects: the hint effect shows
\* the hint and starts its timeout, the ornament effect (isOpen false) hides
\* the ornaments, the open effect does nothing.
Init ==
  /\ records \in { r \in Snapshots : ~kbContactThrows(r) }
  /\ knowledgeBase = buildKnowledgeBase(records)
  /\ isOpen = FALSE
  /\ showHint = showHintAfterMount
  /\ showOrnaments = FALSE
  /\ messages = << seedMessage(records, MountTime) >>
  /\ inputValue = ""
  /\ isTyping = FALSE
  /\ hintTimerRef = TRUE
  /\ hintTimer = hintDue(MountTime)
  /\ ornamentTimers = << >>
  /\ replyTimers = << >>
  /\ now = MountTime
  /\ mounted = TRUE
  /\ unitTicks = 0
  /\ origin = << 0 >>
  /\ opens = 0
  /\ openedAt = 0
  /\ closedEarly = FALSE
  /\ kbResult = NotCalled
  /\ matchResult = NotCalled

NumUser(log) == Cardinality({ i \in 1..Len(log) : log[i].sender = "user" })

\* The panel openings and the accepted sends so far.
UserEvents == opens + NumUser(messages)

\* An input box that keeps its own text and loses it when the panel, and the
\* box with it, leaves the page.
inputValueLostOnClose(open, value) == IF open THEN value ELSE ""

\* `value={inputValue}`: the box is controlled by the state of ChatWidget,
\* which outlives the panel; showing or hiding the panel leaves it alone.
inputValueAcrossToggle(open, value) == value

\* The effects that run after isOpen changed to `open`: the cleanup of the
\* previous ornament effect, the ornament effect, then the focus/hint effect.
setIsOpen(open) ==
  /\ isOpen' = open
  /\ IF open
       THEN /\ ornamentTimers' = Append(ornamentCleanup(ornamentTimers, ornamentT),
                                        [ id |-> opens + 1, due |-> ornamentDue(now) ])
            /\ showOrnaments' = showOrnaments
       ELSE /\ ornamentTimers' = ornamentCleanup(ornamentTimers, ornamentT)
            /\ showOrnaments' = FALSE
  /\ showHint' = hintAfterOpenEffect(open, showHint)
  /\ IF open /\ showHint /\ hintTimerRef
       THEN hintTimer' = NoTimer /\ hintTimerRef' = FALSE
       ELSE UNCHANGED << hintTimer, hintTimerRef >>
  /\ opens' = IF open THEN opens + 1 ELSE opens
  /\ openedAt' = IF open THEN now ELSE openedAt
  /\ closedEarly' = (~open /\ now < openedAt + OrnamentDelay)
  /\ inputValue' = inputValueAcrossToggle(open, inputValue)
  /\ UNCHANGED << records, knowledgeBase, messages, isTyping,
                  replyTimers, now, mounted, unitTicks, origin >>
  /\ UNCHANGED callVars

\* The toggle button: onClick={() => setIsOpen(!isOpen)}
toggle ==
  /\ mounted
  /\ isOpen \/ UserEvents < MaxUserEvents
  /\ setIsOpen(~isOpen)

\* The backdrop and the minimize button, rendered while the panel is open:
\* onClick={() => setIsOpen(false)}
closePanel ==
  /\ mounted
  /\ isOpen
  /\ setIsOpen(FALSE)

\* The input box, rendered while the panel is open:
\* onChange={(e) => setInputValue(e.target.value)}
onChange(text) ==
  /\ mounted
  /\ isOpen
  /\ inputValue' = text
  /\ UNCHANGED << records, knowledgeBase, isOpen, showHint, showOrnaments,
                  messages, isTyping, hintTimerRef, hintTimer, ornamentTimers,
                  replyTimers, now, mounted, unitTicks, origin, panelHistory, callVars >>

\* A send that is refused only for the empty input.
sendRejectedUntrimmed(text) == text = ""

\* A send that is also refused while a reply is awaited.
sendRejectedWhileTyping(text) == trim(text) = "" \/ isTyping

\* `if (!inputValue.trim()) return;`
sendRejected(text) == trim(text) = ""

handleSend ==
  /\ mounted
  /\ isOpen
  /\ IF sendRejected(inputValue)
       THEN UNCHANGED vars
       ELSE /\ UserEvents < MaxUserEvents
            /\ messages' = appendMessage(messages, userMessage(inputValue, now))
            /\ inputValue' = ""
            /\ isTyping' = TRUE
            /\ replyTimers' = scheduleReply(replyTimers,
                                            [ due |-> replyDue(now, inputValue),
                                              inputValue |-> inputValue,
                                              forMsg |-> Len(messages) + 1 ])
            /\ origin' = Append(origin, Len(messages) + 1)
            /\ UNCHANGED << records, knowledgeBase, isOpen, showHint,
                            showOrnaments, hintTimerRef, hintTimer,
                            ornamentTimers, now, mounted, unitTicks, panelHistory, callVars >>

\* The browser runs the timeout that is due first; of two due at the same
\* time, the one created first.
nextReplyTimer(ts) ==
  CHOOSE i \in 1..Len(ts) :
    \A k \in 1..Len(ts) :
      ts[i].due < ts[k].due \/ (ts[i].due = ts[k].due /\ i <= k)

RemoveAt(ts, i) == SubSeq(ts, 1, i - 1) \o SubSeq(ts, i + 1, Len(ts))

\* The input box as it is when the timeout runs.
replyQueryCurrent(timer, current) == current

\* The text the timeout callback passes to findBestMatch: the inputValue of
\* the render in which handleSend ran.
replyQuery(timer, current) == timer.inputValue

\* The callback of the timeout of handleSend.  handleSend never keeps the
\* timeout id, so nothing clears it; when it runs after the unmount its
\* setMessages and setIsTyping calls reach a component that is gone, and
\* the update is either applied to the discarded state or dropped.
replyFire ==
  /\ replyTimers # << >>
  /\ LET i == nextReplyTimer(replyTimers)
         timer == replyTimers[i]
     IN /\ timer.due <= now
        /\ replyTimers' = RemoveAt(replyTimers, i)
        /\ \/ /\ messages' = appendMessage(messages,
                                           botMessage(replyQuery(timer, inputValue),
                                                      knowledgeBase, now))
              /\ isTyping' = FALSE
              /\ origin' = Append(origin, timer.forMsg)
           \/ /\ ~mounted
              /\ UNCHANGED << messages, isTyping, origin >>
  /\ UNCHANGED << records, knowledgeBase, isOpen, showHint, showOrnaments,
                  inputValue, hintTimerRef, hintTimer, ornamentTimers, now,
                  mounted, unitTicks, panelHistory, callVars >>

\* () => setShowHint(false)
hintFire ==
  /\ hintTimer # NoTimer
  /\ hintTimer <= now
  /\ hintTimer' = NoTimer
  /\ showHint' = FALSE
  /\ UNCHANGED << records, knowledgeBase, isOpen, showOrnaments, messages,
                  inputValue, isTyping, hintTimerRef, ornamentTimers,
                  replyTimers, now, mounted, unitTicks, origin, panelHistory, callVars >>

\* () => setShowOrnaments(true)
ornamentFire ==
  /\ ornamentTimers # << >>
  /\ ornamentTimers[nextReplyTimer(ornamentTimers)].due <= now
  /\ ornamentTimers' = RemoveAt(ornamentTimers, nextReplyTimer(ornamentTimers))
  /\ showOrnaments' = TRUE
  /\ UNCHANGED << records, knowledgeBase, isOpen, showHint, messages,
                  inputValue, isTyping, hintTimerRef, hintTimer, replyTimers,
                  now, mounted, unitTicks, origin, panelHistory, callVars >>

\* Unmount: the cleanups of the hint effect and of the ornament effect.
dispose ==
  /\ mounted
  /\ mounted' = FALSE
  /\ hintTimer' = IF hintTimerRef THEN NoTimer ELSE hintTimer
  /\ ornamentTimers' = ornamentCleanup(ornamentTimers, ornamentT)
  /\ UNCHANGED << records, knowledgeBase, isOpen, showHint, showOrnaments,
                  messages, inputValue, isTyping, hintTimerRef, replyTimers,
                  now, unitTicks, origin, panelHistory, callVars >>

\* The due times of all pending timeouts.
Deadlines ==
  { replyTimers[i].due : i \in 1..Len(replyTimers) }
    \cup { ornamentTimers[i].due : i \in 1..Len(ornamentTimers) }
    \cup ({ hintTimer } \ { NoTimer })

Min(S) == CHOOSE x \in S : \A y \in S : x <= y

\* Time passes: by one millisecond, or up to the next timeout.  A timeout
\* that is due runs before the clock moves on.
tick ==
  /\ \A d \in Deadlines : now < d
  /\ \/ /\ unitTicks < MaxUnitTicks
        /\ now' = now + 1
        /\ unitTicks' = unitTicks + 1
     \/ /\ Deadlines # {}
        /\ now' = Min(Deadlines)
        /\ unitTicks' = unitTicks
  /\ UNCHANGED << records, knowledgeBase, isOpen, showHint, showOrnaments,
                  messages, inputValue, isTyping, hintTimerRef, hintTimer,
                  ornamentTimers, replyTimers, mounted, origin, panelHistory, callVars >>

\* What the user types next.
NextInputs ==
  { BlankInput, UserQueries[(NumUser(messages) % Len(UserQueries)) + 1] }

Next ==
  \/ toggle
  \/ closePanel
  \/ \E text \in NextInputs : onChange(text)
  \/ handleSend
  \/ replyFire
  \/ hintFire
  \/ ornamentFire
  \/ dispose
  \/ tick

Spec == Init /\ [][Next]_vars

\* The step of replyFire as seen on the pending timeouts alone: within Next
\* these are exactly the replyFire steps, and it is enabled exactly when
\* replyFire is.
replyTimerRuns ==
  /\ replyTimers # << >>
  /\ replyTimers[nextReplyTimer(replyTimers)].due <= now
  /\ replyTimers' = RemoveAt(replyTimers, nextReplyTimer(replyTimers))

\* The browser's event loop runs every timeout that is due, and time passes.
FairSpec ==
  /\ Spec
  /\ WF_vars(tick)
  /\ WF_replyTimers(replyTimerRuns)
  /\ WF_vars(hintFire)
  /\ WF_vars(ornamentFire)

(***************************************************************************)
(* buildKnowledgeBase and findBestMatch called directly, on every snapshot *)
(* of the records below and with every question below.                     *)
(***************************************************************************)
\* The record r without the field f.
Without(r, f) == [ g \in DOMAIN r \ { f } |-> r[g] ]

\* The record r with the field f set to v.
With(r, f, v) == (f :> v) @@ r

BaseSnapshot == CHOOSE r \in Snapshots : TRUE

skillList(n) == [ i \in 1..n |-> [ name |-> "S" \o toString(i), level |-> 100 - i ] ]

projectList(n) == [ i \in 1..n |-> [ title |-> "P" \o toString(i) ] ]

\* raw.hero when it is present: without a location, with a location.
Heroes ==
  { [ name |-> "Ankush" ], [ name |-> "Ankush", location |-> "Pune" ] }

\* raw.contact when it is present: every choice of email, phone and location.
Contacts ==
  { << >>,
    [ email |-> "a@b.io" ],
    [ phone |-> "555" ],
    [ email |-> "a@b.io", phone |-> "555" ],
    [ location |-> "Delhi" ],
    [ email |-> "a@b.io", location |-> "Delhi" ],
    [ phone |-> "555", location |-> "Delhi" ],
    [ email |-> "a@b.io", phone |-> "555", location |-> "Delhi" ] }

HeroContactSnapshots ==
  { With(With(BaseSnapshot, "hero", h), "contact", c) : h \in Heroes, c \in Contacts }
    \cup { With(Without(BaseSnapshot, "hero"), "contact", c) : c \in Contacts }
    \cup { Without(With(BaseSnapshot, "hero", h), "contact") : h \in Heroes }
    \cup { Without(Without(BaseSnapshot, "hero"), "contact") }

SkillSnapshots ==
  { With(BaseSnapshot, "skills", skillList(n)) : n \in 0..MaxSkills }
    \cup { With(BaseSnapshot, "skills", sk) :
             sk \in { << [ level |-> 90 ] >>,
                      << [ name |-> "Go" ] >>,
                      << [ name |-> "Go", level |-> 90 ], [ level |-> 80 ] >> } }
    \cup { Without(BaseSnapshot, "skills") }

ProjectSnapshots ==
  { With(BaseSnapshot, "projects", projectList(n)) : n \in 0..MaxProjects }
    \cup { With(BaseSnapshot, "projects", pr) :
             pr \in { << [ link |-> "x.io" ] >>,
                      << [ title |-> "A" ], [ link |-> "x.io" ], [ title |-> "C" ] >> } }
    \cup { Without(BaseSnapshot, "projects") }

HistorySnapshots ==
  { With(With(BaseSnapshot, "experiences", ex), "education", ed) :
      ex \in { << >>,
               << [ role |-> "SDET", company |-> "Acme", period |-> "2020-2024" ] >>,
               << [ role |-> "SDET", company |-> "Acme", period |-> "2020-2024" ],
                  [ role |-> "QA" ] >> },
      ed \in { << >>,
               << [ degree |-> "BE", institution |-> "SPPU", year |-> "2019" ] >>,
               << [ degree |-> "BE", institution |-> "SPPU" ], [ year |-> "2015" ] >> } }

\* The imported records the two functions are called on.
AllSnapshots ==
  Snapshots \cup HeroContactSnapshots \cup SkillSnapshots
            \cup ProjectSnapshots \cup HistorySnapshots

\* Questions as a visitor words them.
SpokenQuestions ==
  { "I want a job at your company",
    "asdkjaskdj",
    "SKILLS?",
    "what skills do you have",
    "what tech do you know",
    "Which tools do you use",
    "Where are you based?",
    "How can I contact you",
    "are you AVAILABLE",
    "your Degree",
    "what have you Built",
    "your best achievement",
    "any hobby",
    "" }

\* Every keyword of the table, as a query of its own.
KeywordQuestions ==
  UNION { { keywords[i].words[j] : j \in 1..Len(keywords[i].words) } :
            i \in 1..Len(keywords) }

\* The queries findBestMatch is called with.
Questions == SpokenQuestions \cup KeywordQuestions

\* The module is loaded and ChatWidget has not been rendered.
notRendered ==
  /\ knowledgeBase = NotCalled
  /\ isOpen = FALSE
  /\ showHint = FALSE
  /\ showOrnaments = FALSE
  /\ messages = << >>
  /\ inputValue = ""
  /\ isTyping = FALSE
  /\ hintTimerRef = FALSE
  /\ hintTimer = NoTimer
  /\ ornamentTimers = << >>
  /\ replyTimers = << >>
  /\ now = MountTime
  /\ mounted = FALSE
  /\ unitTicks = 0
  /\ origin = << >>
  /\ opens = 0
  /\ openedAt = 0
  /\ closedEarly = FALSE

widgetVars ==
  << knowledgeBase, isOpen, showHint, showOrnaments, messages, inputValue,
     isTyping, hintTimerRef, hintTimer, ornamentTimers, replyTimers, now,
     mounted, unitTicks, origin, panelHistory >>

CallInit ==
  /\ records \in AllSnapshots
  /\ kbResult = NotCalled
  /\ matchResult = NotCalled
  /\ notRendered

\* buildKnowledgeBase() on the imported records: the mapping it returns, or
\* the TypeError it throws.  It assigns to no record.
callBuild ==
  /\ kbResult = NotCalled
  /\ kbResult' = buildKnowledgeBase(records)
  /\ UNCHANGED << records, matchResult, widgetVars >>

\* findBestMatch(q, kb) on the mapping buildKnowledgeBase has returned.
callMatch(q) ==
  /\ kbResult # NotCalled
  /\ kbResult # TypeError
  /\ matchResult' = [ called |-> TRUE, query |-> q,
                      response |-> findBestMatch(q, kbResult) ]
  /\ UNCHANGED << records, kbResult, widgetVars >>

CallNext ==
  \/ callBuild
  \/ \E q \in Questions : callMatch(q)

CallSpec == CallInit /\ [][CallNext]_vars

(***************************************************************************)
(* Properties.                                                             *)
(***************************************************************************)
IsPrefix(a, b) == Len(a) <= Len(b) /\ SubSeq(b, 1, Len(a)) = a

\* The positions of the log at which a user message can stand: after the
\* greeting, and the first user event is the opening of the panel.
LogPositions == 2..(2 * (MaxUserEvents - 1))

IsUserAt(u) == u <= Len(messages) /\ messages[u].sender = "user"

\* The bot messages produced for the user message at position u.
RepliesTo(u) == { i \in 1..Len(messages) : messages[i].sender = "bot" /\ origin[i] = u }

\* C1: the bot message of a submission stands after that submission's user
\* message and before the bot message of every later submission.
C1_RepliesInSubmissionOrder ==
  \A i \in 1..Len(messages) :
    (messages[i].sender = "bot" /\ origin[i] > 0) =>
      /\ origin[i] < i
      /\ messages[origin[i]].sender = "user"
      /\ \A j \in 1..Len(messages) :
           (messages[j].sender = "bot" /\ origin[i] < origin[j]) => i < j

\* Two submissions made before either reply timer fired, both answered.
C1_Witness ==
  /\ Len(messages) = 5
  /\ messages[2].sender = "user" /\ messages[3].sender = "user"
  /\ messages[3].timestamp < messages[2].timestamp + ReplyDelay
  /\ origin[4] = 2 /\ origin[5] = 3
  /\ messages[4].text = knowledgeBase.projects
  /\ messages[5].text = knowledgeBase.skills

\* C2: every accepted submission gets exactly one bot message, unless the
\* widget unmounts before its reply timer fires; never more than one.
C2_EachSubmissionAnsweredOnce ==
  /\ [](\A u \in LogPositions : Cardinality(RepliesTo(u)) <= 1)
  /\ \A u \in LogPositions :
       (IsUserAt(u) /\ mounted) ~> (Cardinality(RepliesTo(u)) = 1 \/ ~mounted)

\* Both of two overlapping submissions answered, the widget still mounted.
C2_Witness ==
  /\ mounted
  /\ NumUser(messages) = 2
  /\ messages[2].sender = "user" /\ messages[3].sender = "user"
  /\ Cardinality(RepliesTo(2)) = 1 /\ Cardinality(RepliesTo(3)) = 1
  /\ replyTimers = << >>

\* C3: after the unmount no timeout runs: no reply timer leaves the pending
\* ones, and the messages, the typing flag, the hint and the ornaments stay
\* as they were.
C3_NoTaskRunsAfterDispose ==
  [][~mounted =>
       /\ replyTimers' = replyTimers
       /\ messages' = messages
       /\ isTyping' = isTyping
       /\ showHint' = showHint
       /\ showOrnaments' = showOrnaments]_vars

\* C4: at most one reply timeout is pending.
C4_AtMostOneReplyInFlight == Len(replyTimers) <= 1

\* C5: every step leaves the earlier log as a prefix of the later one.
C5_AppendOnly == [][IsPrefix(messages, messages')]_vars

\* The log has grown by a user message and by a reply.
C5_Witness ==
  /\ Len(messages) >= 3
  /\ messages[2].sender = "user"
  /\ messages[3].sender = "bot"

\* C6: a send with an input that is blank after trimming changes nothing.
C6_BlankSendIsNoOp ==
  [][(mounted /\ isOpen /\ trim(inputValue) = "" /\ handleSend) => UNCHANGED vars]_vars

\* A whitespace-only input in the box of the open panel, a reply awaited.
C6_Witness ==
  /\ mounted /\ isOpen
  /\ inputValue = BlankInput
  /\ isTyping
  /\ replyTimers # << >>

\* A step that adds a user message to the log.
UserMessageAdded == NumUser(messages') > NumUser(messages)

\* C7: a send with a non-blank input is accepted, also while a reply is
\* awaited; it appends one user message with the input's text, empties the
\* input box, sets the typing flag and starts one reply timeout.
C7_SendAppendsUserMessage ==
  [][/\ (mounted /\ isOpen /\ trim(inputValue) # "" /\ UserEvents < MaxUserEvents)
          => ENABLED (handleSend /\ UserMessageAdded)
     /\ UserMessageAdded =>
          /\ Len(messages') = Len(messages) + 1
          /\ IsPrefix(messages, messages')
          /\ messages'[Len(messages')].sender = "user"
          /\ messages'[Len(messages')].text = inputValue
          /\ inputValue' = ""
          /\ isTyping'
          /\ Len(replyTimers') = Len(replyTimers) + 1]_vars

\* A second user message appended while the first reply was awaited.
C7_Witness ==
  /\ Len(messages) = 3
  /\ messages[2].sender = "user" /\ messages[3].sender = "user"
  /\ Len(replyTimers) = 2
  /\ isTyping
  /\ inputValue = ""

\* A step in which a reply timeout has run.
ReplyTimerRan == Len(replyTimers') < Len(replyTimers)

\* C8: a reply timeout that runs appends one bot message whose text is
\* findBestMatch of the text of the user message of its own submission, and
\* clears the typing flag.
C8_ReplyAnswersItsOwnSubmission ==
  [][ReplyTimerRan =>
       LET timer == replyTimers[nextReplyTimer(replyTimers)]
           reply == messages'[Len(messages')]
       IN /\ (mounted \/ messages' # messages) =>
               /\ Len(messages') = Len(messages) + 1
               /\ IsPrefix(messages, messages')
               /\ reply.sender = "bot"
               /\ reply.text = findBestMatch(messages[timer.forMsg].text, knowledgeBase)
               /\ ~isTyping'
          /\ messages[timer.forMsg].sender = "user"]_vars

\* The first reply has landed while the user has typed the next question and
\* a later submission is still awaited.
C8_Witness ==
  /\ Len(messages) = 4
  /\ messages[4].sender = "bot"
  /\ messages[4].text = knowledgeBase.projects
  /\ messages[4].text # knowledgeBase.skills
  /\ Len(replyTimers) = 1
  /\ replyTimers[1].inputValue = "SKILLS?"

\* C9: while the widget is mounted the hint is shown only if the panel has
\* never been opened and the hint timeout has not yet run, which is no later
\* than HintDelay after the mount.
C9_HintOnlyBeforeOpenAndExpiry ==
  (mounted /\ showHint) =>
    /\ ~everOpened
    /\ hintTimer # NoTimer
    /\ now <= MountTime + HintDelay

\* The hint gone at its expiry, the panel never opened.
C9_Witness ==
  /\ mounted
  /\ ~showHint
  /\ ~everOpened
  /\ now = MountTime + HintDelay

\* C10: the hint is hidden by the step that opens the panel, and once the
\* panel has been opened a hidden hint stays hidden.
C10_HintNeverResurrected ==
  [][/\ (isOpen' /\ ~isOpen) => ~showHint'
     /\ (everOpened /\ ~showHint) => ~showHint']_vars

\* Opened before the expiry, closed and opened again, and a reply landed.
C10_Witness ==
  /\ opens = 2
  /\ ~showHint
  /\ hintTimer = NoTimer
  /\ now < MountTime + HintDelay
  /\ Len(messages) >= 3
  /\ showOrnaments

\* C11: the ornaments are shown only while the panel is open and only once
\* OrnamentDelay has elapsed since the latest opening of the panel, and the
\* step that closes the panel hides them.
C11_OrnamentsOnlyWhileOpenAfterDelay ==
  /\ [](showOrnaments => (isOpen /\ everOpened /\ now >= openedAt + OrnamentDelay))
  /\ [][(isOpen /\ ~isOpen') => ~showOrnaments']_vars

\* The ornaments shown at the end of the delay of the second opening.
C11_Witness ==
  /\ mounted
  /\ isOpen
  /\ showOrnaments
  /\ opens = 2
  /\ now = openedAt + OrnamentDelay

\* C12: a closing that comes before OrnamentDelay has elapsed since the
\* opening cancels the ornament timeout of that opening; while the panel
\* stays closed no ornament timeout is pending and the ornaments are hidden,
\* a pending ornament timeout is always the one of the latest opening, and
\* the ornaments turn on only when that timeout is due.
C12_EarlyCloseCancelsOrnamentTask ==
  /\ [][(isOpen /\ ~isOpen' /\ now < openedAt + OrnamentDelay)
          => (ornamentTimers' = << >> /\ ~showOrnaments')]_vars
  /\ [](closedEarly => (~isOpen /\ ~showOrnaments /\ ornamentTimers = << >>))
  /\ [](\A i \in 1..Len(ornamentTimers) :
          isOpen /\ ornamentTimers[i].due = openedAt + OrnamentDelay)
  /\ [][(~showOrnaments /\ showOrnaments')
          => (isOpen /\ ornamentTimers # << >>
                     /\ ornamentTimers[1].due = openedAt + OrnamentDelay
                     /\ ornamentTimers[1].due <= now)]_vars

\* Closed before the delay had elapsed, and the delay has since gone by with
\* the ornaments still hidden.
C12_Witness ==
  /\ mounted
  /\ closedEarly
  /\ opens = 1
  /\ now > openedAt + OrnamentDelay
  /\ ~showOrnaments
  /\ ornamentTimers = << >>

\* buildKnowledgeBase has been called directly and has returned a mapping.
KbReturned == kbResult # NotCalled /\ kbResult # TypeError

\* findBestMatch has been called directly.
Matched == matchResult # NotCalled

\* The topics in the order in which findBestMatch is to scan them.
C13_DeclaredOrder ==
  << "skills", "experience", "projects", "education", "contact",
     "location", "availability", "technologies", "strengths", "interests" >>

\* The keywords of a topic.
C13_WordsOf(topic) ==
  LET e == CHOOSE i \in 1..Len(keywords) : keywords[i].topic = topic
  IN { keywords[e].words[j] : j \in 1..Len(keywords[e].words) }

\* The positions, in the declared order, of the topics one of whose keywords
\* occurs in the lower-cased query.
C13_Matching(q) ==
  LET lowered == toLowerCase(q) IN
  { i \in 1..Len(C13_DeclaredOrder) :
      \E w \in C13_WordsOf(C13_DeclaredOrder[i]) : includes(lowered, w) }

\* C13: findBestMatch returns the text of the earliest topic, in the declared
\* order, that has a keyword occurring in the lower-cased query, and the
\* fallback text when there is none; "I want a job at your company" gets the
\* experience text and "asdkjaskdj" the fallback text.
C13_FirstTopicInDeclaredOrderWins ==
  Matched =>
    LET M == C13_Matching(matchResult.query) IN
    /\ { keywords[i].topic : i \in 1..Len(keywords) }
         = { C13_DeclaredOrder[i] : i \in 1..Len(C13_DeclaredOrder) }
    /\ M = {} => matchResult.response = FallbackText
    /\ M # {} => matchResult.response = kbResult[C13_DeclaredOrder[Min(M)]]
    /\ matchResult.query = "I want a job at your company"
         => matchResult.response = kbResult.experience
    /\ matchResult.query = "asdkjaskdj" => matchResult.response = FallbackText

\* The query with keywords of experience and of availability, answered with
\* the experience text, which differs from the availability text.
C13_Witness ==
  /\ Matched
  /\ matchResult.query = "I want a job at your company"
  /\ { 2, 7 } \subseteq C13_Matching(matchResult.query)
  /\ matchResult.response = kbResult.experience
  /\ matchResult.response # kbResult.availability

\* C14: findBestMatch returns a non-empty text for every query and every
\* mapping that buildKnowledgeBase returns.
C14_MatchReturnsNonEmptyText ==
  Matched => matchResult.response # ""

\* The string s with every character found in `from` replaced by the
\* character at the same place in `to`.
RECURSIVE C15_Recase(_, _, _)
C15_Recase(s, from, to) ==
  IF s = "" THEN ""
  ELSE (IF \E i \in 1..Len(from) : CharAt(from, i) = CharAt(s, 1)
          THEN CharAt(to, CHOOSE i \in 1..Len(from) : CharAt(from, i) = CharAt(s, 1))
          ELSE CharAt(s, 1))
       \o C15_Recase(SubSeq(s, 2, Len(s)), from, to)

\* The same letters with every letter's case inverted.
C15_SwapCase(s) ==
  C15_Recase(s, UpperLetters \o LowerLetters, LowerLetters \o UpperLetters)

\* Queries that differ from q only in the case of letters.
C15_CaseVariants(q) ==
  { C15_Recase(q, LowerLetters, UpperLetters),
    C15_Recase(q, UpperLetters, LowerLetters),
    C15_SwapCase(q) }

\* C15: findBestMatch returns the same text for a query in upper case, in
\* lower case and with the case of every letter inverted; "SKILLS?" and
\* "what skills do you have" both get the skills text.
C15_MatchIgnoresLetterCase ==
  Matched =>
    /\ \A q2 \in C15_CaseVariants(matchResult.query) :
         findBestMatch(q2, kbResult) = matchResult.response
    /\ matchResult.query \in { "SKILLS?", "what skills do you have" }
         => matchResult.response = kbResult.skills

\* The upper-case query answered with the skills text.
C15_Witness ==
  /\ Matched
  /\ matchResult.query = "SKILLS?"
  /\ C15_SwapCase(matchResult.query) = "skills?"
  /\ matchResult.response = kbResult.skills
  /\ matchResult.response # FallbackText

\* C16: buildKnowledgeBase throws for no snapshot of the records, and the
\* mapping it returns has a text for each of the ten topics.
C16_BuildIsTotal ==
  kbResult # NotCalled =>
    /\ kbResult # TypeError
    /\ DOMAIN kbResult = TopicSet

\* The smaller of two numbers.
Least(a, b) == IF a < b THEN a ELSE b

\* The entries i..n of the skill list, each as "<name> (<level>%)", with
\* ", " between two entries.
RECURSIVE C18_Listed(_, _, _)
C18_Listed(sk, i, n) ==
  IF i > n THEN ""
  ELSE (IF i > 1 THEN ", " ELSE "")
       \o sk[i].name \o " (" \o toString(sk[i].level) \o "%)"
       \o C18_Listed(sk, i + 1, n)

\* C18: with at least one skill record (each with a name and a level),
\* kb.skills lists the first 8 records, in their order, as "<name> (<level>%)"
\* separated by ", ", after "Top skills: " and before "."; with no skill
\* record it is the placeholder; skills Go 90 and Rust 80 and the query
\* "what tech do you know" give "Top skills: Go (90%), Rust (80%).".
C18_SkillsListsFirstEight ==
  LET sk == skillsOf(records) IN
  /\ KbReturned =>
       /\ Len(sk) = 0 => kbResult.skills = "Skills information is not available."
       /\ (Len(sk) > 0 /\ \A i \in 1..Len(sk) : Has(sk[i], "name") /\ Has(sk[i], "level"))
            => kbResult.skills
                 = "Top skills: " \o C18_Listed(sk, 1, Least(Len(sk), 8)) \o "."
  /\ ( /\ Matched
       /\ matchResult.query = "what tech do you know"
       /\ sk = << [ name |-> "Go", level |-> 90 ], [ name |-> "Rust", level |-> 80 ] >> )
       => matchResult.response = "Top skills: Go (90%), Rust (80%)."

\* More than 8 skill records: the ninth is left out.
C18_Witness ==
  /\ KbReturned
  /\ Len(skillsOf(records)) > 8
  /\ kbResult.skills
       = "Top skills: S1 (99%), S2 (98%), S3 (97%), S4 (96%), S5 (95%), S6 (94%), S7 (93%), S8 (92%)."

\* The title of a project record, empty when the record has none.
C19_Title(p) == IF Has(p, "title") THEN p.title ELSE ""

\* The titles of the entries i..n of the project list with "; " between two.
RECURSIVE C19_Titles(_, _, _)
C19_Titles(pr, i, n) ==
  IF i > n THEN ""
  ELSE (IF i > 1 THEN "; " ELSE "") \o C19_Title(pr[i]) \o C19_Titles(pr, i + 1, n)

\* C19 as stated: with at least one project record kb.projects is the titles
\* of the first 6 records joined by "; ", and the placeholder otherwise.
C19_ProjectsIsJoinedTitles ==
  KbReturned =>
    LET pr == projectsOf(records) IN
    kbResult.projects
      = IF Len(pr) > 0 THEN C19_Titles(pr, 1, Least(Len(pr), 6))
        ELSE "Project information is not available."

\* C19, amended: with at least one project record kb.projects is "Projects: ",
\* then the titles of the first 6 records, in order, joined by "; ", then ".";
\* and the placeholder otherwise.
C19_ProjectsFramesJoinedTitles ==
  KbReturned =>
    LET pr == projectsOf(records) IN
    kbResult.projects
      = IF Len(pr) > 0
          THEN "Projects: " \o C19_Titles(pr, 1, Least(Len(pr), 6)) \o "."
          ELSE "Project information is not available."

\* More than 6 project records: the seventh is left out.
C19_Witness ==
  /\ KbReturned
  /\ Len(projectsOf(records)) > 6
  /\ kbResult.projects = "Projects: P1; P2; P3; P4; P5; P6."

\* The location of the contact text: contact.location, else hero.location,
\* else "N/A".
C20_Location ==
  IF Truthy(contactOf(records), "location") THEN contactOf(records).location
  ELSE IF Has(records, "hero") /\ Truthy(records.hero, "location")
    THEN records.hero.location
  ELSE "N/A"

\* C20: kb.contact is the placeholder exactly when the contact has neither
\* an email nor a phone; otherwise it is "Contact: <email>", then
\* " | <phone>" if there is a phone (the phone alone when there is no email),
\* then ". Location: <L>", L being the contact's location, else the hero's,
\* else "N/A".
C20_ContactText ==
  kbResult # NotCalled =>
    LET c == contactOf(records) IN
    /\ kbResult # TypeError
    /\ (~Truthy(c, "email") /\ ~Truthy(c, "phone"))
         <=> kbResult.contact = "Contact information is not available."
    /\ Truthy(c, "email") =>
         kbResult.contact
           = "Contact: " \o c.email
             \o (IF Truthy(c, "phone") THEN " | " \o c.phone ELSE "")
             \o ". Location: " \o C20_Location
    /\ (~Truthy(c, "email") /\ Truthy(c, "phone")) =>
         kbResult.contact = "Contact: " \o c.phone \o ". Location: " \o C20_Location

\* C21: the ids of the messages of the log are pairwise distinct.
C21_MessageIdsDistinct ==
  \A i, j \in 1..Len(messages) : i # j => messages[i].id # messages[j].id

\* C22: right after the mount (nothing has happened yet) the log holds the
\* greeting alone, sent by the bot; the input is empty, the typing flag off,
\* the hint shown, the ornaments hidden and the panel closed; the hint
\* timeout is pending, due HintDelay after the mount, and no reply or
\* ornament timeout is.
C22_StateAfterMount ==
  (mounted /\ opens = 0 /\ now = MountTime) =>
    /\ Len(messages) = 1
    /\ messages[1] = seedMessage(records, MountTime)
    /\ messages[1].sender = "bot"
    /\ inputValue = ""
    /\ ~isTyping
    /\ showHint
    /\ ~showOrnaments
    /\ ~isOpen
    /\ hintTimer = MountTime + HintDelay
    /\ hintTimerRef
    /\ replyTimers = << >>
    /\ ornamentTimers = << >>

\* The mounted widget before any event.
C22_Witness ==
  /\ mounted
  /\ opens = 0
  /\ now = MountTime
  /\ unitTicks = 0
  /\ showHint
  /\ messages[1].id = "1"
  /\ hintTimer # NoTimer

\* C23: at most one ornament timeout and at most one hint timeout is pending
\* in every reachable state; a pending ornament timeout is the one the latest
\* opening started (the panel is open and no timeout of an earlier opening
\* is left), and a pending hint timeout is the one the mount started.
C23_OneOutstandingTaskPerLineage ==
  /\ Len(ornamentTimers) <= 1
  /\ \A i \in 1..Len(ornamentTimers) :
       /\ isOpen
       /\ ornamentTimers[i].id = opens
       /\ ornamentTimers[i].due = openedAt + OrnamentDelay
  /\ hintTimer # NoTimer => hintTimer = MountTime + HintDelay

\* Open, close and open again before the first opening's delay has passed:
\* one ornament timeout is pending.
C23_Witness ==
  /\ mounted
  /\ opens = 2
  /\ isOpen
  /\ now < MountTime + OrnamentDelay
  /\ Len(ornamentTimers) = 1
  /\ ~showOrnaments

\* C24: a panel that is opened and stays open, the widget mounted, gets its
\* ornaments: they are shown from the moment OrnamentDelay has elapsed since
\* the opening, in every open cycle, and once shown they are hidden again
\* only by the step that closes the panel.
C24_OrnamentsShownWhileOpenStays ==
  /\ (mounted /\ isOpen) ~> (showOrnaments \/ ~isOpen \/ ~mounted)
  /\ []((mounted /\ isOpen /\ now > openedAt + OrnamentDelay) => showOrnaments)
  /\ [][(showOrnaments /\ ~showOrnaments') => (isOpen /\ ~isOpen')]_vars

\* The ornaments of a second open cycle, which began after those of the
\* first had been shown and hidden.
C24_Witness ==
  /\ mounted
  /\ isOpen
  /\ opens = 2
  /\ openedAt > MountTime + OrnamentDelay
  /\ now >= openedAt + OrnamentDelay
  /\ showOrnaments
  /\ ornamentTimers = << >>

\* C25: while the widget is mounted and the panel has never been opened, the
\* hint is shown until HintDelay has elapsed since the mount and hidden from
\* then on: the hint timeout runs at MountTime + HintDelay and hides it, and
\* a hidden hint is never shown again.
C25_HintExpiresUnlessOpened ==
  /\ (mounted /\ ~everOpened) ~> (~showHint \/ everOpened \/ ~mounted)
  /\ []((mounted /\ ~everOpened /\ now < MountTime + HintDelay)
          => (showHint /\ hintTimer = MountTime + HintDelay))
  /\ []((mounted /\ ~everOpened /\ now > MountTime + HintDelay)
          => (~showHint /\ hintTimer = NoTimer))
  /\ [][(showHint /\ ~showHint' /\ ~everOpened')
          => (hintTimer = MountTime + HintDelay /\ now = hintTimer
                /\ hintTimer' = NoTimer)]_vars
  /\ [][~showHint => ~showHint']_vars

\* The hint has expired on a panel never opened, and time has gone on.
C25_Witness ==
  /\ mounted
  /\ ~everOpened
  /\ ~isOpen
  /\ now > MountTime + HintDelay
  /\ ~showHint
  /\ hintTimer = NoTimer
  /\ Len(messages) = 1

\* C26: the user message a submission appends carries the text of the input
\* box without its leading and trailing white space, the letter case and the
\* inner white space kept.
C26_StoredTextIsTrimmed ==
  [][UserMessageAdded => messages'[Len(messages')].text = trim(inputValue)]_vars

\* C27: while the widget is mounted the typing flag is on exactly when a
\* reply timeout is pending, that is, when a user message still awaits its
\* reply.
C27_TypingIffReplyAwaited ==
  mounted => (isTyping <=> replyTimers # << >>)

\* The bot messages of the log other than the greeting.
BotReplies ==
  Cardinality({ i \in 2..Len(messages) : messages[i].sender = "bot" })

\* C28: while the widget is mounted, the user messages of the log are as
\* many as its bot messages other than the greeting plus the pending reply
\* timeouts, and the bot replies are never more than the user messages.
C28_UserMessagesAreRepliedOrAwaited ==
  mounted =>
    /\ messages[1].sender = "bot"
    /\ NumUser(messages) = BotReplies + Len(replyTimers)
    /\ BotReplies <= NumUser(messages)

\* Two user messages, one replied to and one whose reply is awaited.
C28_Witness ==
  /\ mounted
  /\ NumUser(messages) = 2
  /\ BotReplies = 1
  /\ Len(replyTimers) = 1

\* C29: a step that opens or closes the panel leaves the log, the typing
\* flag, the input and the pending reply timeouts as they were; a reply
\* timeout pending on the mounted widget runs also while the panel is
\* closed, and whether the panel is open or closed it appends the bot
\* message of its user message and clears the typing flag.
C29_PanelToggleLeavesChatAlone ==
  /\ [][(isOpen' # isOpen)
          => UNCHANGED << messages, isTyping, inputValue, replyTimers >>]_vars
  /\ \A n \in 1..MaxUserEvents :
       (mounted /\ ~isOpen /\ Len(replyTimers) = n)
         ~> (~mounted \/ isOpen \/ Len(replyTimers) < n)
  /\ [][(mounted /\ Len(replyTimers') < Len(replyTimers))
          => /\ isOpen' = isOpen
             /\ Len(messages') = Len(messages) + 1
             /\ messages'[Len(messages')].sender = "bot"
             /\ origin'[Len(messages')]
                  = replyTimers[nextReplyTimer(replyTimers)].forMsg
             /\ ~isTyping']_vars

\* A reply that was appended after the panel had been closed: the panel was
\* closed within OrnamentDelay of its only opening, sooner than any reply
\* could be due.
C29_Witness ==
  /\ mounted
  /\ ~isOpen
  /\ closedEarly
  /\ opens = 1
  /\ BotReplies = 1
  /\ NumUser(messages) = 1
  /\ replyTimers = << >>

\* The position, in the table, of the first topic that lists the keyword k.
C30_FirstListing(k) ==
  Min({ i \in 1..Len(keywords) :
          \E j \in 1..Len(keywords[i].words) : keywords[i].words[j] = k })

\* C30: a query that is exactly a keyword of the table gets the text of the
\* first topic, in the order of the table, that lists that keyword.
C30_KeywordResolvesToListingTopic ==
  (Matched /\ matchResult.query \in KeywordQuestions) =>
    matchResult.response
      = kbResult[keywords[C30_FirstListing(matchResult.query)].topic]

====
